---- MODULE Spec2Model ----
(***************************************************************************)
(* AgentService.process_input (src/agent_service.py): one call drives an  *)
(* external agent run, dispatches every yielded node to one of two stream  *)
(* handlers, accumulates a response dict and forwards recognised events to *)
(* the caller's callbacks.  The run, its nodes and their event streams are *)
(* external: what they yield (or raise) is chosen nondeterministically.    *)
(*                                                                         *)
(* Text (deltas, tool arguments) is a sequence of one-character strings,   *)
(* so that concatenation and str.strip() are computed, not assumed.        *)
(***************************************************************************)
EXTENDS Naturals, Sequences, FiniteSets, TLC

VARIABLES pc, response, collected_content, callbacks,
          nodes, cb_log, exc, exc_site,
          stale,
          user_input, history, input_with_context, prompt_pc,
          BASE_MODEL, scope, mcp, scope_exc, outcomes

\* one process_input call
call_vars == <<pc, response, collected_content, callbacks,
               nodes, cb_log, exc, exc_site>>

\* the prompt of a call: _prepare_input_with_history and its arguments
prompt_vars == <<user_input, history, input_with_context, prompt_pc>>

\* the session: construction and the scope around the tool server
session_vars == <<BASE_MODEL, scope, mcp, scope_exc, outcomes>>

vars == <<call_vars, stale, prompt_vars, session_vars>>

(***************************************************************************)
(* Bounds of the exploration.                                              *)
(***************************************************************************)
\* nodes one run yields at most
MaxNodes == 2
\* events the streams of one run yield at most, all nodes together
MaxEvents == 2
\* process_input calls inside one scope at most
MaxCalls == 2
\* scopes one session enters, one after the other, at most
MaxScopes == 2
\* characters of user_input at most
MaxInputLen == 2
\* entries of the history argument at most
MaxHistoryLen == 2

(***************************************************************************)
(* Values of the external collaborators.                                   *)
(***************************************************************************)
Whitespace == {" "}

\* incremental text of a model-generation event (content_delta), "" included
Deltas == {<< >>, <<"a">>, <<"b">>}

\* argument text of a tool-call part (part.args)
ArgTexts == {<< >>, <<"{", "}">>, <<" ">>, <<"x">>}

ToolNames == {"add"}

\* result.content.content : the list of content segments, by their .text
ResultContents == {<< >>, <<"r1">>, <<"r2", "r1">>}

\* history argument: None / empty list, a serialisable list, a list that
\* json.dumps cannot serialise
Histories == {"none", "turns", "unserialisable"}

\* An event of a node's stream, by the attributes the handlers probe.
Event(shape, d, n, a, c) ==
    [shape |-> shape, content_delta |-> d, tool_name |-> n, args |-> a, content |-> c]

TextDelta(d) == Event("delta", d, "", << >>, << >>)

ToolCallRequested(n, a) == Event("part", << >>, n, a, << >>)

ToolResultReceived(c) == Event("result", << >>, "", << >>, c)

Unrecognized == Event("other", << >>, "", << >>, << >>)

\* what a model-generation node's stream may yield
ModelStreamEvents ==
    {TextDelta(d) : d \in Deltas}
      \cup {ToolCallRequested("add", <<"x">>), Unrecognized}

\* what a tool-invocation node's stream may yield
ToolStreamEvents ==
    {ToolCallRequested(n, a) : n \in ToolNames, a \in ArgTexts}
      \cup {ToolResultReceived(c) : c \in ResultContents}
      \cup {TextDelta(<<"a">>), Unrecognized}

NodeKinds == {"model_request", "call_tools", "other"}

\* Exceptions: a type and the args tuple the exception was built with.
NoExc == [type |-> "None", args |-> << >>]

\* the exception types that derive from Exception; asyncio.CancelledError,
\* KeyboardInterrupt and SystemExit derive from BaseException only
ExceptionTypes == {"RuntimeError", "IndexError", "TypeError", "ValueError"}

\* what a collaborator (run, stream, callback) may raise
Raisable ==
    { [type |-> "RuntimeError", args |-> <<"boom">>],
      [type |-> "RuntimeError", args |-> << >>],
      [type |-> "CancelledError", args |-> << >>] }

IndexError == [type |-> "IndexError", args |-> <<"list index out of range">>]

TypeError == [type |-> "TypeError", args |-> <<"Object is not JSON serializable">>]

\* the exception's type name instead of its message
StrTypeName(e) == e.type

(***************************************************************************)
(* Pure helpers                                                            *)
(***************************************************************************)
\* str(e) of an exception: "" without args, the argument with one
Str(e) == IF Len(e.args) = 0 THEN "" ELSE e.args[1]

RECURSIVE LStrip(_)
LStrip(s) ==
    IF s # << >> /\ Head(s) \in Whitespace THEN LStrip(Tail(s)) ELSE s

RECURSIVE RStrip(_)
RStrip(s) ==
    IF s # << >> /\ s[Len(s)] \in Whitespace
    THEN RStrip(SubSeq(s, 1, Len(s) - 1)) ELSE s

\* str.strip()
Strip(s) == RStrip(LStrip(s))

\* the comparison without strip()
ArgsAcceptedNoStrip(args) == args \notin {<< >>, <<"{", "}">>}

\* line 128: event.part.args and event.part.args.strip() not in ["", "{}"]
ArgsAccepted(args) ==
    /\ args # << >>
    /\ Strip(args) \notin {<< >>, <<"{", "}">>}

\* line 129-132
ToolCall(event) == [tool_name |-> event.tool_name, args |-> event.args]

\* lines 66-70
FreshResponse ==
    [assistant_content |-> << >>, tool_calls |-> << >>, tool_results |-> << >>]

\* the dict of the earlier call is used again
KeepResponse(old) == old

\* lines 66-70: response = {...}, whatever an earlier call returned
NewResponse(old) == FreshResponse

\* except RuntimeError
CaughtRuntimeError(e) == e.type = "RuntimeError"

\* line 80: except Exception
Caught(e) == e.type \in ExceptionTypes

\* the handler answers with a new dict
RecordErrorFresh(resp, e) == ("error" :> Str(e)) @@ FreshResponse

\* the handler logs and forgets to record
RecordErrorNot(resp, e) == resp

\* line 82: response["error"] = str(e)
RecordError(resp, e) == ("error" :> Str(e)) @@ resp

EmptyLog ==
    [order |-> << >>, on_assistant_message |-> << >>,
     on_tool_call |-> << >>, on_tool_result |-> << >>]

\* a callback is invoked with one argument
Invoke(log, cb, arg) ==
    [log EXCEPT !.order = Append(@, cb), ![cb] = Append(@, arg)]

----
\* no history argument (None)
NoHistory == [given |-> FALSE, turns |-> << >>]

\* the tool-server handle before any scope was entered
NoHandle == [acquired |-> 0, released |-> 0]

CallInit ==
    /\ pc = "idle"
    /\ response = FreshResponse
    /\ collected_content = << >>
    /\ callbacks = [on_assistant_message |-> FALSE, on_tool_call |-> FALSE,
                    on_tool_result |-> FALSE]
    /\ nodes = << >>
    /\ cb_log = EmptyLog
    /\ exc = NoExc
    /\ exc_site = "none"
    /\ stale = FALSE

\* the prompt variables while no prompt is looked at
PromptInit ==
    /\ user_input = << >>
    /\ history = NoHistory
    /\ input_with_context = << >>
    /\ prompt_pc = "unused"

\* the session variables while the session is not looked at
SessionInit ==
    /\ BASE_MODEL = "unset"
    /\ scope = "unused"
    /\ mcp = NoHandle
    /\ scope_exc = NoExc
    /\ outcomes = << >>

Init == CallInit /\ PromptInit /\ SessionInit

\* An exception e leaves the try block of process_input with the response
\* dict as resp: lines 80-84.
Raise(e, resp, site) ==
    /\ exc' = e
    /\ exc_site' = site
    /\ IF Caught(e)
       THEN /\ response' = RecordError(resp, e)
            /\ pc' = "failed"
       ELSE /\ response' = resp
            /\ pc' = "raised"

\* the event just taken from the current node's stream is recorded
Consumed(event) ==
    [nodes EXCEPT ![Len(nodes)].events = Append(@, event)]

CurrentEvents == nodes[Len(nodes)].events

RECURSIVE TotalEvents(_)
TotalEvents(ns) ==
    IF ns = << >> THEN 0 ELSE Len(Head(ns).events) + TotalEvents(Tail(ns))

\* lines 47-70: the call starts with its callbacks and a fresh response
ProcessInput ==
    /\ pc = "idle"
    /\ \E m, c, r \in BOOLEAN :
         callbacks' = [on_assistant_message |-> m, on_tool_call |-> c,
                       on_tool_result |-> r]
    /\ response' = NewResponse(response)
    /\ pc' = "prepare"
    /\ UNCHANGED <<collected_content, nodes, cb_log, exc, exc_site>>
    /\ UNCHANGED <<stale, prompt_vars, session_vars>>

\* lines 74-75, 86-92: the prompt is built from the history argument;
\* json.dumps raises TypeError on a history it cannot serialise
PrepareInput ==
    /\ pc = "prepare"
    /\ \E h \in Histories :
         IF h = "unserialisable"
         THEN Raise(TypeError, response, "prepare")
         ELSE pc' = "open" /\ UNCHANGED <<response, exc, exc_site>>
    /\ UNCHANGED <<collected_content, callbacks, nodes, cb_log>>
    /\ UNCHANGED <<stale, prompt_vars, session_vars>>

\* line 77: async with self.agent.iter(...) as run
OpenRun ==
    /\ pc = "open"
    /\ \/ pc' = "iter" /\ UNCHANGED <<response, exc, exc_site>>
       \/ \E e \in Raisable : Raise(e, response, "open")
    /\ UNCHANGED <<collected_content, callbacks, nodes, cb_log>>
    /\ UNCHANGED <<stale, prompt_vars, session_vars>>

\* lines 99-104: the run yields a node; it is dispatched on its kind
NextNode ==
    /\ pc = "iter"
    /\ Len(nodes) < MaxNodes
    /\ \E k \in NodeKinds :
         /\ nodes' = Append(nodes, [kind |-> k, events |-> << >>])
         /\ pc' = CASE k = "model_request" -> "model_stream"
                    [] k = "call_tools" -> "tool_stream"
                    [] OTHER -> "iter"
    /\ collected_content' = << >>
    /\ UNCHANGED <<response, callbacks, cb_log, exc, exc_site>>
    /\ UNCHANGED <<stale, prompt_vars, session_vars>>

\* line 99: the run raises instead of yielding
RunRaises ==
    /\ pc = "iter"
    /\ \E e \in Raisable : Raise(e, response, "run")
    /\ UNCHANGED <<collected_content, callbacks, nodes, cb_log>>
    /\ UNCHANGED <<stale, prompt_vars, session_vars>>

\* line 99, 77, 84: the run is exhausted and the response returned
RunExhausted ==
    /\ pc = "iter"
    /\ pc' = "completed"
    /\ UNCHANGED <<response, collected_content, callbacks, nodes,
                   cb_log, exc, exc_site>>
    /\ UNCHANGED <<stale, prompt_vars, session_vars>>

\* the entry is only recorded when the callback is supplied
CallbackGuardsRecord(cb, arg, resp, site) ==
    IF callbacks[cb]
    THEN /\ cb_log' = Invoke(cb_log, cb, arg)
         /\ \/ response' = resp /\ UNCHANGED <<pc, exc, exc_site>>
            \/ \E e \in Raisable : Raise(e, resp, site)
    ELSE UNCHANGED <<response, pc, cb_log, exc, exc_site>>

\* the callback is called before the entry is recorded
CallbackBeforeRecord(cb, arg, resp, site) ==
    IF callbacks[cb]
    THEN /\ cb_log' = Invoke(cb_log, cb, arg)
         /\ \/ response' = resp /\ UNCHANGED <<pc, exc, exc_site>>
            \/ \E e \in Raisable : Raise(e, response, site)
    ELSE /\ response' = resp
         /\ UNCHANGED <<pc, cb_log, exc, exc_site>>

\* A callback slot is called with arg after the response became resp: it is
\* skipped when the caller passed None, and otherwise returns or raises.
Callback(cb, arg, resp, site) ==
    IF callbacks[cb]
    THEN /\ cb_log' = Invoke(cb_log, cb, arg)
         /\ \/ response' = resp /\ UNCHANGED <<pc, exc, exc_site>>
            \/ \E e \in Raisable : Raise(e, resp, site)
    ELSE /\ response' = resp
         /\ UNCHANGED <<pc, cb_log, exc, exc_site>>

\* line 112: hasattr(event, 'delta') and hasattr(event.delta, 'content_delta')
HasContentDelta(event) == event.shape = "delta"

\* collected_content = delta + collected_content
AccumulateFront(collected, delta) == delta \o collected

\* line 115: collected_content += delta
Accumulate(collected, delta) == collected \o delta

\* response["assistant_content"] += collected_content
AddAssistantContent(resp, collected) ==
    [resp EXCEPT !.assistant_content = @ \o collected]

\* line 119: response["assistant_content"] = collected_content
SetAssistantContent(resp, collected) ==
    [resp EXCEPT !.assistant_content = collected]

\* lines 110-117: one event of a model-generation node's stream
ModelStreamEvent ==
    /\ pc = "model_stream"
    /\ TotalEvents(nodes) < MaxEvents
    /\ \E event \in ModelStreamEvents :
         /\ nodes' = Consumed(event)
         /\ IF HasContentDelta(event) /\ event.content_delta # << >>
            THEN /\ collected_content' =
                      Accumulate(collected_content, event.content_delta)
                 /\ Callback("on_assistant_message", event.content_delta,
                             response, "model_callback")
            ELSE UNCHANGED <<response, collected_content, pc, cb_log, exc,
                             exc_site>>
    /\ UNCHANGED callbacks
    /\ UNCHANGED <<stale, prompt_vars, session_vars>>

\* lines 108-110: the stream raises instead of yielding an event
ModelStreamRaises ==
    /\ pc = "model_stream"
    /\ \E e \in Raisable : Raise(e, response, "model_stream")
    /\ UNCHANGED <<collected_content, callbacks, nodes, cb_log>>
    /\ UNCHANGED <<stale, prompt_vars, session_vars>>

\* line 119: the stream is exhausted
ModelStreamExhausted ==
    /\ pc = "model_stream"
    /\ response' = SetAssistantContent(response, collected_content)
    /\ pc' = "iter"
    /\ UNCHANGED <<collected_content, callbacks, nodes, cb_log, exc,
                   exc_site>>
    /\ UNCHANGED <<stale, prompt_vars, session_vars>>

\* line 127: hasattr(event, 'part') and hasattr(event.part, 'tool_name')
HasToolName(event) == event.shape = "part"

\* a bare else
HasResultContentElse(event) == TRUE

\* line 138: hasattr(event, 'result') and hasattr(event.result, 'content')
HasResultContent(event) == event.shape = "result"

\* line 133: response["tool_calls"].append(tool_call)
AppendToolCall(resp, tool_call) ==
    [resp EXCEPT !.tool_calls = Append(@, tool_call)]

\* line 139: event.result.content.content[0].text
FirstText(content) == content[1]

\* response["tool_results"] = [result]
ReplaceToolResults(resp, result) ==
    [resp EXCEPT !.tool_results = <<result>>]

\* response["tool_results"].insert(0, result)
InsertToolResult(resp, result) ==
    [resp EXCEPT !.tool_results = <<result>> \o @]

\* line 140: response["tool_results"].append(result)
AppendToolResult(resp, result) ==
    [resp EXCEPT !.tool_results = Append(@, result)]

\* lines 124-142: one event of a tool-invocation node's stream
ToolStreamEvent ==
    /\ pc = "tool_stream"
    /\ TotalEvents(nodes) < MaxEvents
    /\ \E event \in ToolStreamEvents :
         /\ nodes' = Consumed(event)
         /\ IF HasToolName(event)
            THEN IF ArgsAccepted(event.args)
                 THEN Callback("on_tool_call", ToolCall(event),
                               AppendToolCall(response, ToolCall(event)),
                               "tool_callback")
                 ELSE UNCHANGED <<response, pc, cb_log, exc, exc_site>>
            ELSE IF HasResultContent(event)
                 THEN IF event.content = << >>
                      THEN /\ Raise(IndexError, response, "tool_result")
                           /\ UNCHANGED cb_log
                      ELSE Callback("on_tool_result", FirstText(event.content),
                                    AppendToolResult(response,
                                                     FirstText(event.content)),
                                    "tool_callback")
                 ELSE UNCHANGED <<response, pc, cb_log, exc, exc_site>>
    /\ UNCHANGED <<collected_content, callbacks>>
    /\ UNCHANGED <<stale, prompt_vars, session_vars>>

\* lines 123-124: the stream raises instead of yielding an event
ToolStreamRaises ==
    /\ pc = "tool_stream"
    /\ \E e \in Raisable : Raise(e, response, "tool_stream")
    /\ UNCHANGED <<collected_content, callbacks, nodes, cb_log>>
    /\ UNCHANGED <<stale, prompt_vars, session_vars>>

\* line 124: the stream is exhausted
ToolStreamExhausted ==
    /\ pc = "tool_stream"
    /\ pc' = "iter"
    /\ UNCHANGED <<response, collected_content, callbacks, nodes,
                   cb_log, exc, exc_site>>
    /\ UNCHANGED <<stale, prompt_vars, session_vars>>

Next ==
    \/ ProcessInput
    \/ PrepareInput
    \/ OpenRun
    \/ NextNode
    \/ RunRaises
    \/ RunExhausted
    \/ ModelStreamEvent
    \/ ModelStreamRaises
    \/ ModelStreamExhausted
    \/ ToolStreamEvent
    \/ ToolStreamRaises
    \/ ToolStreamExhausted

Spec == Init /\ [][Next]_vars

(***************************************************************************)
(* Several calls on one session, one after the other.                      *)
(***************************************************************************)
\* line 84 and the caller: the call is over and the caller calls again.
\* The record of the call that ended stays where it is until the next call
\* makes its own; stale remembers that it was not empty.
Return ==
    /\ pc \in {"completed", "failed", "raised"}
    /\ pc' = "idle"
    /\ stale' = (response # FreshResponse)
    /\ nodes' = << >>
    /\ cb_log' = EmptyLog
    /\ exc' = NoExc
    /\ exc_site' = "none"
    /\ collected_content' = << >>
    /\ UNCHANGED <<response, callbacks, prompt_vars, session_vars>>

\* lines 47-70: a call of the sequence; its caller supplies all three
\* callbacks, the case in which every handler path and every callback
\* failure can occur
ProcessInputWithCallbacks ==
    /\ ProcessInput
    /\ callbacks'.on_assistant_message
    /\ callbacks'.on_tool_call
    /\ callbacks'.on_tool_result

NextRepeat ==
    \/ ProcessInputWithCallbacks
    \/ PrepareInput
    \/ OpenRun
    \/ NextNode
    \/ RunRaises
    \/ RunExhausted
    \/ ModelStreamEvent
    \/ ModelStreamRaises
    \/ ModelStreamExhausted
    \/ ToolStreamEvent
    \/ ToolStreamRaises
    \/ ToolStreamExhausted
    \/ Return

SpecRepeat == Init /\ [][NextRepeat]_vars

(***************************************************************************)
(* The session: __init__, __aenter__, __aexit__ and the caller's           *)
(* `async with` around its process_input calls.                            *)
(***************************************************************************)
\* os.getenv("BASE_MODEL"): not set, set to the empty string, set
ModelNames == {"unset", "", "gpt"}

\* line 27
ValueError ==
    [type |-> "ValueError",
     args |-> <<"BASE_MODEL environment variable is required">>]

CancelledError == [type |-> "CancelledError", args |-> << >>]

\* how a process_input call ends: the end states of pc
CallOutcomes == {"completed", "failed", "raised"}

\* the check only logs
ModelNameAccepted(model_name) == FALSE

\* line 25: if not model_name
ModelNameMissing(model_name) == model_name \in {"unset", ""}

\* lines 39-40: run_mcp_servers() entered, the tool server is started
Acquire(handle) == [handle EXCEPT !.acquired = @ + 1]

\* the handle is only released when the scope ends without an exception
ReleaseIfNoError(handle, e) ==
    IF e = NoExc THEN [handle EXCEPT !.released = @ + 1] ELSE handle

\* line 45: self._mcp_context.__aexit__(exc_type, exc_val, exc_tb)
Release(handle, e) == [handle EXCEPT !.released = @ + 1]

InitSession ==
    /\ CallInit
    /\ PromptInit
    /\ BASE_MODEL \in ModelNames
    /\ scope = "start"
    /\ mcp = NoHandle
    /\ scope_exc = NoExc
    /\ outcomes = << >>

\* lines 23-35: __init__
Construct ==
    /\ scope = "start"
    /\ IF ModelNameMissing(BASE_MODEL)
       THEN scope' = "construct_failed" /\ scope_exc' = ValueError
       ELSE scope' = "constructed" /\ UNCHANGED scope_exc
    /\ UNCHANGED <<BASE_MODEL, mcp, outcomes, call_vars, stale, prompt_vars>>

\* lines 37-41: __aenter__; starting the tool server may fail, and then the
\* scope is not entered
EnterScope ==
    /\ scope \in {"constructed", "exited"}
    /\ mcp.acquired < MaxScopes
    /\ outcomes' = << >>
    /\ \/ /\ mcp' = Acquire(mcp)
          /\ scope' = "inside"
          /\ scope_exc' = NoExc
       \/ /\ \E e \in Raisable : scope_exc' = e
          /\ scope' = "enter_failed"
          /\ UNCHANGED mcp
    /\ UNCHANGED <<BASE_MODEL, call_vars, stale, prompt_vars>>

\* lines 47-84: a process_input call in the scope ends in one of its end
\* states; an exception it lets through leaves the scope's body
CallProcessInput ==
    /\ scope = "inside"
    /\ scope_exc = NoExc
    /\ Len(outcomes) < MaxCalls
    /\ \E o \in CallOutcomes :
         /\ outcomes' = Append(outcomes, o)
         /\ scope_exc' = IF o = "raised" THEN CancelledError ELSE NoExc
    /\ UNCHANGED <<BASE_MODEL, scope, mcp, call_vars, stale, prompt_vars>>

\* the caller's own code in the scope raises
BodyRaises ==
    /\ scope = "inside"
    /\ scope_exc = NoExc
    /\ \E e \in Raisable : scope_exc' = e
    /\ UNCHANGED <<BASE_MODEL, scope, mcp, outcomes, call_vars, stale,
                   prompt_vars>>

\* lines 43-45: __aexit__, called by `async with` when the body ends or
\* raises
ExitScope ==
    /\ scope = "inside"
    /\ mcp' = Release(mcp, scope_exc)
    /\ scope' = "exited"
    /\ UNCHANGED <<BASE_MODEL, scope_exc, outcomes, call_vars, stale,
                   prompt_vars>>

NextSession ==
    \/ Construct
    \/ EnterScope
    \/ CallProcessInput
    \/ BodyRaises
    \/ ExitScope

SpecSession == InitSession /\ [][NextSession]_vars

(***************************************************************************)
(* The prompt: _prepare_input_with_history, applied to bounded arguments.  *)
(* A prompt is a sequence of tokens; json.dumps(history, indent=2) is      *)
(* computed token by token.                                                *)
(***************************************************************************)
InputChars == {"h", "i"}

SeqsUpTo(S, n) == UNION {[1..k -> S] : k \in 0..n}

UserInputs == SeqsUpTo(InputChars, MaxInputLen)

\* a history entry: a text json.dumps can serialise, or an object it cannot
Turns ==
    { [json |-> TRUE, text |-> <<"u">>],
      [json |-> TRUE, text |-> <<"v">>],
      [json |-> FALSE, text |-> << >>] }

\* the history argument: None, or a list of entries ([] included)
HistoryArgs ==
    {NoHistory} \cup {[given |-> TRUE, turns |-> t] : t \in SeqsUpTo(Turns, MaxHistoryLen)}

\* json.dumps raises TypeError unless every entry is serialisable
Serialisable(turns) == \A i \in 1..Len(turns) : turns[i].json

\* one list item of json.dumps(..., indent=2): two spaces and the quoted text
DumpItem(turn) == <<" ", " ", "\"">> \o turn.text \o <<"\"">>

RECURSIVE DumpItems(_)
DumpItems(turns) ==
    IF Len(turns) = 1 THEN DumpItem(Head(turns))
    ELSE DumpItem(Head(turns)) \o <<",", "\n">> \o DumpItems(Tail(turns))

\* line 92: json.dumps(history, indent=2)
Dumps(turns) ==
    IF turns = << >> THEN <<"[", "]">>
    ELSE <<"[", "\n">> \o DumpItems(turns) \o <<"\n", "]">>

\* `if history is None`
FalsyNoneOnly(h) == ~h.given

\* line 88: not history
Falsy(h) == ~h.given \/ h.turns = << >>

\* the f-string without "\n\nCurrent query: "
FormatPromptNoSeparator(dumped, text) ==
    <<"Previous conversation:", "\n">> \o dumped \o text

\* line 92: the f-string
FormatPrompt(dumped, text) ==
    <<"Previous conversation:", "\n">> \o dumped
      \o <<"\n", "\n", "Current query: ">> \o text

\* lines 86-92
PrepareInputWithHistory(text, h) ==
    IF Falsy(h) THEN text ELSE FormatPrompt(Dumps(h.turns), text)

InitPrompt ==
    /\ CallInit
    /\ SessionInit
    /\ user_input \in UserInputs
    /\ history \in HistoryArgs
    /\ input_with_context = << >>
    /\ prompt_pc = "call"

\* line 74: the prompt is built, or json.dumps raises and the call fails
\* without a prompt
BuildPrompt ==
    /\ prompt_pc = "call"
    /\ IF ~Falsy(history) /\ ~Serialisable(history.turns)
       THEN prompt_pc' = "type_error" /\ UNCHANGED input_with_context
       ELSE /\ input_with_context' =
                 PrepareInputWithHistory(user_input, history)
            /\ prompt_pc' = "built"
    /\ UNCHANGED <<user_input, history, call_vars, stale, session_vars>>

\* line 77: self.agent.iter(input_with_context)
PassPrompt ==
    /\ prompt_pc = "built"
    /\ prompt_pc' = "passed"
    /\ UNCHANGED <<user_input, history, input_with_context, call_vars, stale,
                   session_vars>>

NextPrompt ==
    \/ BuildPrompt
    \/ PassPrompt

SpecPrompt == InitPrompt /\ [][NextPrompt]_vars

(***************************************************************************)
(* What a run has yielded so far, read off the recorded nodes.             *)
(***************************************************************************)
RunningStates == {"prepare", "open", "iter", "model_stream", "tool_stream"}

Last(q) == q[Len(q)]

RECURSIVE Concat(_)
Concat(texts) ==
    IF texts = << >> THEN << >> ELSE Head(texts) \o Concat(Tail(texts))

\* every consumed event with the kind of the node whose stream yielded it
RECURSIVE Flatten(_)
Flatten(ns) ==
    IF ns = << >> THEN << >>
    ELSE [i \in 1..Len(Head(ns).events) |->
            [kind |-> Head(ns).kind, event |-> Head(ns).events[i]]]
         \o Flatten(Tail(ns))

IsDelta(x) == x.kind = "model_request" /\ x.event.shape = "delta"

IsToolCall(x) == x.kind = "call_tools" /\ x.event.shape = "part"

IsToolResult(x) == x.kind = "call_tools" /\ x.event.shape = "result"

\* the deltas d1..dn of a stream of model-generation events
DeltasOf(events) ==
    LET ds == SelectSeq(events, LAMBDA ev : ev.shape = "delta")
    IN  [i \in 1..Len(ds) |-> ds[i].content_delta]

NonEmptyDeltas(ns) ==
    LET ds == SelectSeq(Flatten(ns),
                        LAMBDA x : IsDelta(x) /\ x.event.content_delta # << >>)
    IN  [i \in 1..Len(ds) |-> ds[i].event.content_delta]

ModelNodes(ns) == SelectSeq(ns, LAMBDA n : n.kind = "model_request")

\* argument text that is empty or whitespace only
Blank(a) == \A i \in 1..Len(a) : a[i] = " "

\* argument text that is "{}" with whitespace around it
PaddedBraces(a) ==
    \E i \in 1..(Len(a) - 1) :
        /\ a[i] = "{"
        /\ a[i + 1] = "}"
        /\ \A j \in (1..Len(a)) \ {i, i + 1} : a[j] = " "

EntriesOf(xs) ==
    [i \in 1..Len(xs) |->
        [tool_name |-> xs[i].event.tool_name, args |-> xs[i].event.args]]

\* the tool calls whose argument text is neither "" nor "{}"
CallsNotEmptyOrBraces(ns) ==
    EntriesOf(SelectSeq(Flatten(ns),
        LAMBDA x : IsToolCall(x) /\ x.event.args \notin {<< >>, <<"{", "}">>}))

\* the tool calls whose argument text, whitespace around it removed, is
\* neither "" nor "{}"
CallsKept(ns) ==
    EntriesOf(SelectSeq(Flatten(ns),
        LAMBDA x : IsToolCall(x) /\ ~Blank(x.event.args)
                                 /\ ~PaddedBraces(x.event.args)))

\* the first text segment of every tool result that has one
ResultsKept(ns) ==
    LET rs == SelectSeq(Flatten(ns),
                        LAMBDA x : IsToolResult(x) /\ x.event.content # << >>)
    IN  [i \in 1..Len(rs) |-> Head(rs[i].event.content)]

ResultEvents(ns) == SelectSeq(Flatten(ns), IsToolResult)

AllCallbacks ==
    /\ callbacks.on_assistant_message
    /\ callbacks.on_tool_call
    /\ callbacks.on_tool_result

HasError == "error" \in DOMAIN response

(***************************************************************************)
(* Properties                                                              *)
(***************************************************************************)
\* C1, as claimed: whatever is raised during the call, process_input returns
\* the response record and raises nothing to its caller.
C1_AlwaysReturns ==
    /\ exc # NoExc => pc = "failed"
    /\ pc # "raised"

\* C1, amended: whenever an exception deriving from Exception is raised
\* during the call, process_input returns the response record (with error
\* set); only an exception outside Exception (cancellation) reaches the
\* caller.
C1_ReturnsOnException ==
    /\ (exc # NoExc /\ exc.type \in ExceptionTypes) => (pc = "failed" /\ HasError)
    /\ pc = "raised" => (exc # NoExc /\ exc.type \notin ExceptionTypes)

\* a callback raised an Exception and the record was returned
C1_Witness ==
    /\ pc = "failed"
    /\ exc_site = "tool_callback"
    /\ exc.type = "RuntimeError"
    /\ HasError

\* C2: a failed call returns every tool_calls and tool_results entry appended
\* before the exception, in the order of the events.
C2_PartialLists ==
    pc = "failed" =>
        /\ response.tool_calls = CallsKept(nodes)
        /\ response.tool_results = ResultsKept(nodes)

C2_Witness ==
    /\ pc = "failed"
    /\ response.tool_calls # << >>
    /\ response.tool_results # << >>

\* C3, as claimed: when the call fails while a model-generation node's stream
\* is consumed, the returned assistant_content is the text of that node's
\* deltas collected before the exception.
C3_PartialText ==
    (pc = "failed" /\ exc_site \in {"model_stream", "model_callback"}) =>
        response.assistant_content = Concat(DeltasOf(Last(nodes).events))

\* C4, as claimed: a call that has ended is Completed or Failed, and its
\* record has error exactly when an exception occurred.
C4_CompletedOrFailed ==
    pc \notin RunningStates \cup {"idle"} =>
        /\ pc \in {"completed", "failed"}
        /\ HasError <=> (exc # NoExc)
        /\ HasError <=> (pc = "failed")

C4_After ==
    /\ pc' = "completed" => (exc' = NoExc /\ ~HasError')
    /\ pc' = "failed" => (exc' # NoExc /\ exc'.type \in ExceptionTypes /\ HasError')
    /\ pc' = "raised" => (exc' # NoExc /\ exc'.type \notin ExceptionTypes)
    /\ pc' \in RunningStates => (exc' = NoExc /\ ~HasError')

C4_Step ==
    /\ pc = "idle" => pc' \in RunningStates
    /\ pc \in RunningStates =>
          pc' \in RunningStates \cup {"completed", "failed", "raised"}
    /\ pc \notin RunningStates \cup {"idle"} => pc' = pc
    /\ C4_After

\* C4, amended: a call goes Idle -> Running -> Completed, Failed or, when an
\* exception outside Exception is raised, Raised (no record returned); the
\* record has no error while running and when Completed, and has error when
\* Failed, which is exactly when an Exception occurred.
C4_Lifecycle == [][C4_Step]_vars

C4_Witness ==
    /\ pc = "failed"
    /\ HasError
    /\ exc_site = "run"
    /\ nodes # << >>

\* C5, as claimed: the error of a failed call is a non-empty string.
C5_NonEmptyError ==
    pc = "failed" => (HasError /\ response.error # "")

\* C5, amended: the error of a failed call is the exception's string
\* representation: its message, which is the empty string for an exception
\* raised without a message.
C5_ErrorIsMessage ==
    pc = "failed" =>
        /\ HasError
        /\ response.error = (IF exc.args = << >> THEN "" ELSE Head(exc.args))

C5_Witness ==
    /\ pc = "failed"
    /\ HasError
    /\ exc.args = << >>
    /\ response.error = ""

\* C6: when the stream of a model-generation node is exhausted,
\* assistant_content is the concatenation of its deltas d1..dn, and
\* on_assistant_message has been invoked once per non-empty delta, in order,
\* with that delta.
C6_DeltasConcatenated ==
    /\ (pc \in {"iter", "completed"} /\ nodes # << >>
          /\ Last(nodes).kind = "model_request") =>
            response.assistant_content = Concat(DeltasOf(Last(nodes).events))
    /\ callbacks.on_assistant_message =>
            cb_log.on_assistant_message = NonEmptyDeltas(nodes)

C6_Witness ==
    /\ pc = "completed"
    /\ callbacks.on_assistant_message
    /\ response.assistant_content = <<"a", "b">>
    /\ cb_log.on_assistant_message = << <<"a">>, <<"b">> >>

\* C7: when a run with several model-generation nodes completes,
\* assistant_content is the text of the last such node only, although
\* on_assistant_message received the deltas of all of them.
C7_LastNodeOnly ==
    (pc = "completed" /\ ModelNodes(nodes) # << >>) =>
        /\ response.assistant_content =
              Concat(DeltasOf(Last(ModelNodes(nodes)).events))
        /\ callbacks.on_assistant_message =>
              Concat(cb_log.on_assistant_message) =
                Concat([i \in 1..Len(ModelNodes(nodes)) |->
                          Concat(DeltasOf(ModelNodes(nodes)[i].events))])

C7_Witness ==
    /\ pc = "completed"
    /\ Len(ModelNodes(nodes)) = 2
    /\ DeltasOf(ModelNodes(nodes)[1].events) = << <<"a">> >>
    /\ response.assistant_content = << >>
    /\ cb_log.on_assistant_message = << <<"a">> >>

\* C8, as claimed: tool_calls holds, in order, one entry for every tool-call
\* event whose argument text is neither "" nor "{}", and on_tool_call was
\* invoked once with each of them.
C8_NotEmptyOrBraces ==
    /\ response.tool_calls = CallsNotEmptyOrBraces(nodes)
    /\ callbacks.on_tool_call =>
          cb_log.on_tool_call = CallsNotEmptyOrBraces(nodes)

\* C8, amended: the argument text is compared with surrounding whitespace
\* removed: a tool-call event whose arguments are empty, whitespace only or
\* "{}" with whitespace around it appends nothing and invokes nothing; any
\* other appends exactly one {tool_name, args} entry and on_tool_call fires
\* once with that entry.
C8_StrippedArgs ==
    /\ response.tool_calls = CallsKept(nodes)
    /\ callbacks.on_tool_call => cb_log.on_tool_call = CallsKept(nodes)

C8_Witness ==
    /\ callbacks.on_tool_call
    /\ nodes # << >>
    /\ Last(nodes).kind = "call_tools"
    /\ Last(nodes).events =
          <<ToolCallRequested("add", <<" ">>), ToolCallRequested("add", <<"x">>)>>
    /\ response.tool_calls = <<[tool_name |-> "add", args |-> <<"x">>]>>
    /\ cb_log.on_tool_call = response.tool_calls

\* C9, as claimed: every tool-result event appends exactly one text to
\* tool_results and on_tool_result fires once for it, whatever the payload.
C9_OnePerResult ==
    /\ Len(response.tool_results) = Len(ResultEvents(nodes))
    /\ callbacks.on_tool_result =>
          Len(cb_log.on_tool_result) = Len(ResultEvents(nodes))

\* the callback a recognised event leads to
CallbackOf(x) ==
    CASE IsDelta(x) -> "on_assistant_message"
      [] IsToolCall(x) -> "on_tool_call"
      [] OTHER -> "on_tool_result"

ExpectedOrder(ns) ==
    LET xs == SelectSeq(Flatten(ns), LAMBDA x :
                  \/ IsDelta(x) /\ x.event.content_delta # << >>
                  \/ IsToolCall(x) /\ ~Blank(x.event.args)
                                   /\ ~PaddedBraces(x.event.args)
                  \/ IsToolResult(x) /\ x.event.content # << >>)
    IN  [i \in 1..Len(xs) |-> CallbackOf(xs[i])]

\* C10: in a completed call with all three callbacks, on_tool_call received
\* exactly the returned tool_calls, on_tool_result the returned
\* tool_results, and the callbacks were invoked in the order the events
\* were yielded.
C10_CallbackOrder ==
    (pc = "completed" /\ AllCallbacks) =>
        /\ cb_log.on_tool_call = response.tool_calls
        /\ cb_log.on_tool_result = response.tool_results
        /\ cb_log.order = ExpectedOrder(nodes)

C10_Witness ==
    /\ pc = "completed"
    /\ AllCallbacks
    /\ Len(nodes) = 2
    /\ cb_log.order = <<"on_tool_result", "on_assistant_message">>
    /\ response.tool_results = <<"r2">>

\* C11: the tool-server handle acquired on scope entry is held while the
\* scope is open and has been released exactly once when the scope is
\* exited, however the body ended: normally, by an exception of the
\* caller's code, or by an exception process_input let through.
C11_ReleasedOnce ==
    /\ scope = "inside" => mcp.acquired = mcp.released + 1
    /\ scope \in {"exited", "enter_failed"} => mcp.released = mcp.acquired
    /\ mcp.released <= mcp.acquired

C11_Witness ==
    /\ scope = "exited"
    /\ outcomes = <<"failed", "raised">>
    /\ scope_exc = CancelledError
    /\ mcp.acquired = 1
    /\ mcp.released = 1

\* C14: with BASE_MODEL not set, construction fails with the configuration
\* error, no session object exists afterwards and no tool server is started.
C14_MissingModelName ==
    BASE_MODEL = "unset" =>
        /\ scope \in {"start", "construct_failed"}
        /\ scope = "construct_failed" => scope_exc = ValueError
        /\ mcp = NoHandle
        /\ outcomes = << >>

C14_Witness ==
    /\ BASE_MODEL = "unset"
    /\ scope = "construct_failed"
    /\ scope_exc.type = "ValueError"

\* the texts between quotes in a token sequence, in order
RECURSIVE QuotedTexts(_, _, _, _)
QuotedTexts(toks, inside, cur, acc) ==
    IF toks = << >> THEN acc
    ELSE IF Head(toks) = "\""
         THEN IF inside
              THEN QuotedTexts(Tail(toks), FALSE, << >>, Append(acc, cur))
              ELSE QuotedTexts(Tail(toks), TRUE, << >>, acc)
         ELSE IF inside
              THEN QuotedTexts(Tail(toks), TRUE, Append(cur, Head(toks)), acc)
              ELSE QuotedTexts(Tail(toks), FALSE, cur, acc)

PromptHeader == <<"Previous conversation:", "\n">>

PromptSeparator == <<"\n", "\n", "Current query: ">>

\* prompt is the header, a block from which the entries of turns read back
\* in order, the separator and text
HistoryLayout(prompt, turns, text) ==
    LET n == Len(prompt)
        k == Len(text)
        m == Len(PromptSeparator)
        h == Len(PromptHeader)
    IN  /\ n >= h + m + k
        /\ SubSeq(prompt, 1, h) = PromptHeader
        /\ SubSeq(prompt, n - k - m + 1, n - k) = PromptSeparator
        /\ SubSeq(prompt, n - k + 1, n) = text
        /\ QuotedTexts(SubSeq(prompt, h + 1, n - k - m), FALSE, << >>, << >>)
             = [i \in 1..Len(turns) |-> turns[i].text]

\* C12, as claimed: for every history sequence the prompt passed to the run
\* is the serialised history, the separator and user_input, and differs
\* from user_input when the history is not empty.
C12_AllHistories ==
    (prompt_pc = "passed" /\ history.given) =>
        /\ HistoryLayout(input_with_context, history.turns, user_input)
        /\ history.turns # << >> => input_with_context # user_input

\* C12, amended: for every non-empty history sequence (that json.dumps can
\* serialise) the prompt passed to the run is the header, the serialised
\* history, the separator and user_input, and is never user_input alone; an
\* empty history gives user_input verbatim.
C12_NonEmptyHistories ==
    /\ (prompt_pc = "passed" /\ history.given /\ history.turns # << >>) =>
          /\ HistoryLayout(input_with_context, history.turns, user_input)
          /\ input_with_context # user_input
    /\ (prompt_pc = "passed" /\ history.given /\ history.turns = << >>) =>
          input_with_context = user_input

C12_Witness ==
    /\ prompt_pc = "passed"
    /\ Len(history.turns) = 2
    /\ history.turns[1] # history.turns[2]
    /\ user_input = <<"h", "i">>
    /\ Len(input_with_context) > Len(user_input)

\* C13: for non-empty user_input and no history (None or an empty list) the
\* prompt passed to the run is user_input verbatim.
C13_Verbatim ==
    (prompt_pc = "passed" /\ user_input # << >>
        /\ (~history.given \/ history.turns = << >>)) =>
            input_with_context = user_input

C13_Witness ==
    /\ prompt_pc = "passed"
    /\ ~history.given
    /\ user_input = <<"h", "i">>
    /\ input_with_context = <<"h", "i">>

IsExtension(old, new) ==
    /\ Len(new) >= Len(old)
    /\ SubSeq(new, 1, Len(old)) = old

\* C15: in every step of a call tool_calls and tool_results are extended at
\* the end or left alone, also in the step in which the call fails.
C15_OnlyGrow ==
    [][/\ IsExtension(response.tool_calls, response.tool_calls')
       /\ IsExtension(response.tool_results, response.tool_results')]_vars

C15_Witness ==
    /\ pc = "failed"
    /\ response.tool_results = <<"r1", "r2">>

\* the text of the last model-generation node whose stream was exhausted
FinishedModelText ==
    LET ms == ModelNodes(nodes)
        done == IF exc_site \in {"model_stream", "model_callback"}
                THEN SubSeq(ms, 1, Len(ms) - 1) ELSE ms
    IN  IF done = << >> THEN << >> ELSE Concat(DeltasOf(Last(done).events))

\* C16: the record a call returns is made of that call's own events and
\* exception alone, whatever the records of earlier calls on the session
\* held.
C16_FreshPerCall ==
    pc \in {"completed", "failed"} =>
        /\ response.tool_calls = CallsKept(nodes)
        /\ response.tool_results = ResultsKept(nodes)
        /\ response.assistant_content = FinishedModelText
        /\ HasError <=> (exc # NoExc)
        /\ HasError =>
              response.error = (IF exc.args = << >> THEN "" ELSE Head(exc.args))

C16_Witness ==
    /\ stale
    /\ pc = "completed"
    /\ nodes = << >>
    /\ response = FreshResponse

\* the step took a node that is neither kind from the run
SkippedNode ==
    /\ Len(nodes') = Len(nodes) + 1
    /\ Last(nodes').kind = "other"

\* the step took an event from a stream that its handler does not recognise
SkippedEvent ==
    /\ Len(nodes') = Len(nodes)
    /\ nodes' # nodes
    /\ LET n == Last(nodes')
           ev == Last(n.events)
       IN  \/ n.kind = "model_request" /\ ev.shape # "delta"
           \/ n.kind = "call_tools" /\ ev.shape \notin {"part", "result"}

\* C17: taking a node of neither kind, or an event of a shape its handler
\* does not recognise, changes neither the record nor the text being
\* accumulated, invokes no callback, sets no error, and the iteration goes
\* on where it was.
C17_SilentSkip ==
    [][/\ (SkippedNode \/ SkippedEvent) =>
            /\ response' = response
            /\ cb_log' = cb_log
            /\ exc' = NoExc
            /\ pc' = pc
       /\ SkippedEvent => collected_content' = collected_content]_vars

C17_Witness ==
    /\ pc = "completed"
    /\ Len(nodes) = 2
    /\ nodes[1].kind = "other"
    /\ nodes[2].kind = "call_tools"
    /\ nodes[2].events = <<Unrecognized, TextDelta(<<"a">>)>>
    /\ response = FreshResponse
    /\ cb_log = EmptyLog

\* the entry of the event on which a tool callback raised is the last of
\* its list
EntryRecorded ==
    LET ev == Last(Last(nodes).events)
    IN  IF ev.shape = "part"
        THEN /\ response.tool_calls # << >>
             /\ Last(response.tool_calls) =
                   [tool_name |-> ev.tool_name, args |-> ev.args]
        ELSE /\ response.tool_results # << >>
             /\ Last(response.tool_results) = Head(ev.content)

\* C18: when a callback raises on a tool event the entry of that event is
\* in the returned record, and once an exception was raised no node, event
\* or callback follows.
C18_FailureIsTerminal ==
    [][/\ (pc' = "failed" /\ exc_site' = "tool_callback") => EntryRecorded'
       /\ exc # NoExc => UNCHANGED <<pc, response, nodes, cb_log, exc>>]_vars

C18_Witness ==
    /\ pc = "failed"
    /\ exc_site = "tool_callback"
    /\ Len(Last(nodes).events) = 1
    /\ response.tool_results = <<"r1">>
    /\ cb_log.on_tool_result = <<"r1">>

====
